---- MODULE Spec2Model ----
(***************************************************************************)
(* Bellman-Ford single source shortest path, src/bellmanford.py.           *)
(*                                                                         *)
(* One call of BellmanFord.singleSourceShortestPath(weight, source) is     *)
(* modelled as a state machine.  A step is one execution of the body of    *)
(* the innermost loop (one edge examined), or one piece of loop control.   *)
(* The two nested loops "for v in range(SIZE): for x in adjacency(weight,  *)
(* v)" visit the edges in the order of EdgeList(weight); n is the position *)
(* of the scan in that list.                                               *)
(*                                                                         *)
(* A matrix cell is None (no edge) or a number.  None is modelled as the   *)
(* empty sequence and a weight w as <<w>>, so that no number stands for    *)
(* the absence of an edge.                                                 *)
(***************************************************************************)
EXTENDS Integers, Sequences, FiniteSets

VARIABLES weight, source, pred, minDist, pc, i, n

vars == <<weight, source, pred, minDist, pc, i, n>>

\* ---- bounds of the model ----------------------------------------------
\* A generated matrix has V vertices and k edges (cells that are not None)
\* with V + k <= MaxSize: up to MaxSize - 3 edges on 3 vertices, up to
\* MaxSize - 4 edges on 4 vertices, and so on.
MaxSize == 6

\* the edge weights of a generated matrix: negative, zero and positive
Weights == {-1, 0, 1}

\* ---- constants of singleSourceShortestPath ----------------------------
\* sys.maxint.  Python 2 integers do not overflow (an int is promoted to a
\* long), so maxint + w is an ordinary sum.  sys.maxint is 2^31-1 or 2^63-1
\* depending on the build; the model takes 2^30-1, which like sys.maxint is
\* above every sum of edge weights that occurs, and leaves room for
\* maxint + w in the model checker's 32-bit integers.
maxint == 1073741823

EVE == -1

INFINITY == maxint

None == << >>

\* ---- the matrix -------------------------------------------------------
SIZE == Cardinality(DOMAIN weight)

Vertices == 0..(SIZE - 1)

\* weight[v][x] as a number, for a cell that is not None
W(v, x) == weight[v][x][1]

\* range(lo, hi) as a sequence
range(lo, hi) ==
  IF lo >= hi THEN << >> ELSE [j \in 1..(hi - lo) |-> lo + j - 1]

\* adjacency that scans range(len(G) - 1): the last column is never seen
adjacencyShort(G, v) ==
  SelectSeq(range(0, Cardinality(DOMAIN G) - 1), LAMBDA x : G[v][x] # None)

\* adjacency(G, v): the x in range(len(G)) with G[v][x] is not None, ascending
adjacency(G, v) ==
  SelectSeq(range(0, Cardinality(DOMAIN G)), LAMBDA x : G[v][x] # None)

\* the edges in the order the nested loops over v and adjacency(weight, v)
\* visit them
RECURSIVE EdgesFrom(_, _)
EdgesFrom(G, v) ==
  IF v >= Cardinality(DOMAIN G) THEN << >>
  ELSE LET a == adjacency(G, v)
       IN  [k \in 1..Len(a) |-> <<v, a[k]>>] \o EdgesFrom(G, v + 1)

EdgeList(G) == EdgesFrom(G, 0)

\* ---- the comparison of lines 81 and 88 --------------------------------
\* the comparison of line 81 with # for >, and with >= for >
RelaxableUnequal(d, v, x) == d[x] # d[v] + W(v, x)

RelaxableOrEqual(d, v, x) == d[x] >= d[v] + W(v, x)

\* line 81: minDist[x] > minDist[v] + weight[v][x]

Relaxable(d, v, x) == d[x] > d[v] + W(v, x)

\* the comparison of line 88 off by one
StillRelaxableByTwo(d, v, x) == d[x] > d[v] + W(v, x) + 1

\* line 88: minDist[x] > minDist[v] + weight[v][x]

StillRelaxable(d, v, x) == d[x] > d[v] + W(v, x)

\* line 78: i in range(1, SIZE - 1)
InPassRange(k) == 1 <= k /\ k < SIZE - 1

\* ---- generated inputs -------------------------------------------------
\* the V x V matrix with weight ws[j] in cell number cells[j] (row-major) and
\* None everywhere else
Matrix(V, cells, ws) ==
  [v \in 0..(V - 1) |->
    [x \in 0..(V - 1) |->
      IF \E j \in DOMAIN cells : cells[j] = v * V + x
      THEN <<ws[CHOOSE j \in DOMAIN cells : cells[j] = v * V + x]>>
      ELSE None]]

\* lines 66-72 without line 75: the source is left at INFINITY
StartNoSource(G, s) ==
  /\ weight = G
  /\ source = s
  /\ pred = [x \in DOMAIN G |-> EVE]
  /\ minDist = [x \in DOMAIN G |-> INFINITY]
  /\ pc = "relax"
  /\ i = 1
  /\ n = 1

\* lines 66-75
Start(G, s) ==
  /\ weight = G
  /\ source = s
  /\ pred = [x \in DOMAIN G |-> EVE]
  /\ minDist = [x \in DOMAIN G |-> IF x = s THEN 0 ELSE INFINITY]
  /\ pc = "relax"
  /\ i = 1
  /\ n = 1

\* every matrix within the bound, solved from each of its vertices
InitGenerated ==
  \E V \in 1..MaxSize :
    \E k \in 0..(MaxSize - V) :
      \E cells \in {c \in [1..k -> 0..(V * V - 1)] :
                      \A j \in 1..(k - 1) : c[j] < c[j + 1]} :
        \E ws \in [1..k -> Weights], s \in 0..(V - 1) :
          Start(Matrix(V, cells, ws), s)

\* ---- the steps --------------------------------------------------------
\* lines 81-83 with pred[x] = x for pred[x] = v
RelaxEdgePredSelf ==
  /\ pc = "relax"
  /\ InPassRange(i)
  /\ LET E == EdgeList(weight)
         v == E[n][1]
         x == E[n][2]
     IN  /\ n <= Len(E)
         /\ IF Relaxable(minDist, v, x)
              THEN /\ minDist' = [minDist EXCEPT ![x] = minDist[v] + W(v, x)]
                   /\ pred' = [pred EXCEPT ![x] = x]
              ELSE UNCHANGED <<minDist, pred>>
  /\ n' = n + 1
  /\ UNCHANGED <<weight, source, pc, i>>

\* lines 81-83, for the edge at position n of the current pass
RelaxEdge ==
  /\ pc = "relax"
  /\ InPassRange(i)
  /\ LET E == EdgeList(weight)
         v == E[n][1]
         x == E[n][2]
     IN  /\ n <= Len(E)
         /\ IF Relaxable(minDist, v, x)
              THEN /\ minDist' = [minDist EXCEPT ![x] = minDist[v] + W(v, x)]
                   /\ pred' = [pred EXCEPT ![x] = v]
              ELSE UNCHANGED <<minDist, pred>>
  /\ n' = n + 1
  /\ UNCHANGED <<weight, source, pc, i>>

\* line 78: the loops over v and x are exhausted, the next i is taken
NextPass ==
  /\ pc = "relax"
  /\ InPassRange(i)
  /\ n > Len(EdgeList(weight))
  /\ i' = i + 1
  /\ n' = 1
  /\ UNCHANGED <<weight, source, pred, minDist, pc>>

\* lines 78, 86: range(1, SIZE - 1) is exhausted, the detection scan begins
StartDetect ==
  /\ pc = "relax"
  /\ ~InPassRange(i)
  /\ pc' = "detect"
  /\ n' = 1
  /\ UNCHANGED <<weight, source, pred, minDist, i>>

\* lines 88-89, for the edge at position n of the detection scan
DetectEdge ==
  /\ pc = "detect"
  /\ LET E == EdgeList(weight)
         v == E[n][1]
         x == E[n][2]
     IN  /\ n <= Len(E)
         /\ IF StillRelaxable(minDist, v, x)
              THEN pc' = "raised" /\ n' = n
              ELSE pc' = pc /\ n' = n + 1
  /\ UNCHANGED <<weight, source, pred, minDist, i>>

\* line 91
Return ==
  /\ pc = "detect"
  /\ n > Len(EdgeList(weight))
  /\ pc' = "returned"
  /\ UNCHANGED <<weight, source, pred, minDist, i, n>>

Next ==
  \/ RelaxEdge
  \/ NextPass
  \/ StartDetect
  \/ DetectEdge
  \/ Return


\* ---- the matrices of the tests ----------------------------------------
\* a Python list of lists (indices from 0) from its literal (a tuple of
\* tuples, indices from 1)
Rows(m) ==
  [v \in 0..(Len(m) - 1) |-> [x \in 0..(Len(m[v + 1]) - 1) |-> m[v + 1][x + 1]]]

\* testBellmanFordWithPositiveEdges
PositiveEdges ==
  Rows(<< <<None, <<10>>, None, None, <<3>> >>,
          <<None, None, <<2>>, None, <<1>> >>,
          <<None, None, None, <<7>>, None>>,
          <<None, None, <<9>>, None, None>>,
          <<None, <<4>>, <<8>>, <<2>>, None>> >>)

\* testBellmanFordWithNegativeEdges
NegativeEdges ==
  Rows(<< <<None, <<-1>>, <<4>>, None, None>>,
          <<None, None, <<3>>, <<2>>, <<2>> >>,
          <<None, None, None, None, None>>,
          <<None, <<1>>, <<5>>, None, None>>,
          <<None, None, None, <<-3>>, None>> >>)

\* testBellmanFordWithNegativeCycle
NegativeCycle ==
  Rows(<< <<None, <<-1>>, <<4>>, None, None>>,
          <<None, None, <<3>>, <<2>>, <<2>> >>,
          <<None, <<-6>>, None, None, None>>,
          <<None, <<1>>, <<5>>, None, None>>,
          <<None, None, None, <<-3>>, None>> >>)

\* the three matrices of the tests, solved from each of their vertices
InitTests ==
  \E G \in {PositiveEdges, NegativeEdges, NegativeCycle} :
    \E s \in DOMAIN G : Start(G, s)

SpecTests == InitTests /\ [][Next]_vars

\* a solve of a generated matrix or of a matrix of the tests
Init == InitGenerated \/ InitTests

Spec == Init /\ [][Next]_vars

\* ---- graph notions the properties are stated with ---------------------
HasEdge(v, x) == weight[v][x] # None

\* the simple paths (no vertex twice) of exactly k vertices that start at
\* the source and follow edges of the matrix
RECURSIVE PathsOfLen(_)
PathsOfLen(k) ==
  IF k <= 1 THEN {<<source>>}
  ELSE UNION {{Append(p, y) :
                 y \in {z \in Vertices :
                          /\ HasEdge(p[Len(p)], z)
                          /\ \A j \in 1..Len(p) : p[j] # z}} :
              p \in PathsOfLen(k - 1)}

SimplePaths == UNION {PathsOfLen(k) : k \in 1..SIZE}

\* the sum of the weights of the edges of a path
RECURSIVE PathWeight(_)
PathWeight(p) ==
  IF Len(p) <= 1 THEN 0
  ELSE W(p[1], p[2]) + PathWeight(Tail(p))

Reachable(x) == \E p \in SimplePaths : p[Len(p)] = x

\* a cycle of negative total weight through vertices reachable from the
\* source: a simple path from the source whose last vertex has an edge back
\* to a vertex of the path (to itself, for a self-loop)
NegCycleReachable ==
  \E p \in SimplePaths : \E j \in 1..Len(p) :
    /\ HasEdge(p[Len(p)], p[j])
    /\ PathWeight(SubSeq(p, j, Len(p))) + W(p[Len(p)], p[j]) < 0

\* the least weight of a simple path from the source to x; with no negative
\* cycle reachable this is the shortest-path weight
ShortestWeight(x) ==
  LET ws == {PathWeight(p) : p \in {q \in SimplePaths : q[Len(q)] = x}}
  IN  CHOOSE m \in ws : \A o \in ws : m <= o

Finished == pc \in {"returned", "raised"}

NoSelfLoop == \A v \in Vertices : ~HasEdge(v, v)

\* an input on which nothing but the algorithm proper is at work: no
\* self-loop, no negative weight (so no negative cycle, and no sum with the
\* infinity sentinel is ever below the sentinel) and no vertex out of reach
\* of the source
PlainInput ==
  /\ NoSelfLoop
  /\ \A v, x \in Vertices : HasEdge(v, x) => W(v, x) >= 0
  /\ \A x \in Vertices : Reachable(x)

\* the predecessor links followed from x: <<x, pred[x], pred[pred[x]], ...>>,
\* up to the first vertex with no predecessor, cut after k vertices
RECURSIVE PredChain(_, _)
PredChain(x, k) ==
  IF k <= 1 \/ pred[x] = EVE THEN <<x>>
  ELSE <<x>> \o PredChain(pred[x], k - 1)

\* the chain from x read from its far end: a path towards x
Reversed(c) == [j \in 1..Len(c) |-> c[Len(c) + 1 - j]]

\* every link of the chain is an edge of the matrix
FollowsEdges(p) == \A j \in 1..(Len(p) - 1) : HasEdge(p[j], p[j + 1])

NoRepeat(p) == \A j, k \in 1..Len(p) : j # k => p[j] # p[k]

\* ======================= the claims ====================================

\* C1: whenever no negative-weight cycle is reachable from the source, the
\* solve ends by returning a result, and in it distance[x] is the true
\* shortest-path weight for every vertex x reachable from the source.
\* (Stated for matrices without self-loops, the inputs the contract covers.)
C1_ShortestDistances ==
  (Finished /\ NoSelfLoop /\ ~NegCycleReachable) =>
    /\ pc = "returned"
    /\ \A x \in Vertices : Reachable(x) => minDist[x] = ShortestWeight(x)

\* C2: whenever a cycle of strictly negative total weight is reachable from
\* the source, the solve ends with the negative-cycle error and never by
\* returning a (predecessor, distance) result.
C2_NegativeCycleRaises ==
  (Finished /\ NegCycleReachable) => pc = "raised"

\* C2 witness: a solve that raised on a reachable negative cycle made of
\* several edges (the matrix has no self-loop).
C2_Witness ==
  /\ pc = "raised"
  /\ NegCycleReachable
  /\ \A v \in Vertices : ~HasEdge(v, v)

\* C3: the negative-cycle error is raised only at an improvable edge (v, x)
\* whose tail v has a finite distance and is reachable from the source.
C3_RaisedOnlyFromReached ==
  pc = "raised" =>
    LET v == EdgeList(weight)[n][1]
    IN  minDist[v] # INFINITY /\ Reachable(v)

\* C4: in every state of the solve and in its result, a vertex that is not
\* reachable from the source has the infinity sentinel as distance and the
\* no-predecessor sentinel as predecessor.
\* (Stated for matrices without self-loops, the inputs the contract covers.)
C4_UnreachedStayInfinite ==
  NoSelfLoop => \A x \in Vertices :
    ~Reachable(x) => (minDist[x] = INFINITY /\ pred[x] = EVE)

\* C5 as stated: at every step of the relaxation passes and in a returned
\* result, every vertex x with a predecessor p has
\* distance[x] = distance[p] + weight[p][x].
\* (Stated for plain inputs, so that a violation owes nothing to a negative
\* cycle, a self-loop or the arithmetic on the infinity sentinel.)
C5_PredEquationAlways ==
  (PlainInput /\ (pc = "relax" \/ pc = "returned")) =>
    \A x \in Vertices :
      pred[x] # EVE =>
        /\ HasEdge(pred[x], x)
        /\ minDist[x] = minDist[pred[x]] + W(pred[x], x)

\* C5 as amended: at every step every vertex x with a predecessor p has
\* distance[x] >= distance[p] + weight[p][x] over an edge p -> x of the
\* matrix, and in a returned result the two are equal.
C5_PredEquationAtReturn ==
  \A x \in Vertices :
    pred[x] # EVE =>
      /\ HasEdge(pred[x], x)
      /\ minDist[x] >= minDist[pred[x]] + W(pred[x], x)
      /\ pc = "returned" => minDist[x] = minDist[pred[x]] + W(pred[x], x)

\* C5 witness: a returned result in which some vertex has a predecessor that
\* itself has a predecessor.
C5_Witness ==
  /\ pc = "returned"
  /\ \E x \in Vertices : pred[x] # EVE /\ pred[pred[x]] # EVE

\* C6: in every returned result, for every vertex x reachable from the
\* source the predecessor links from x lead to the source without repeating
\* a vertex, along edges whose weights sum to distance[x], which is the
\* shortest-path weight; the source keeps distance 0 and no predecessor.
C6_PredecessorChains ==
  pc = "returned" =>
    /\ minDist[source] = 0
    /\ pred[source] = EVE
    /\ \A x \in Vertices :
         Reachable(x) =>
           LET p == Reversed(PredChain(x, SIZE + 1))
           IN  /\ p[1] = source
               /\ NoRepeat(p)
               /\ FollowsEdges(p)
               /\ PathWeight(p) = minDist[x]
               /\ minDist[x] = ShortestWeight(x)

\* C6 witness: a returned result with a chain of at least two links.
C6_Witness ==
  /\ pc = "returned"
  /\ \E x \in Vertices : Reachable(x) /\ Len(PredChain(x, SIZE + 1)) >= 3

\* C7: the positive-weight matrix of the tests solved from vertex 0 returns
\* distances [0, 7, 9, 5, 3] and predecessors [-1, 4, 1, 4, 0].
C7_PositiveEdgesResult ==
  (Finished /\ weight = PositiveEdges /\ source = 0) =>
    /\ pc = "returned"
    /\ minDist = Rows(<< <<0, 7, 9, 5, 3>> >>)[0]
    /\ pred = Rows(<< <<EVE, 4, 1, 4, 0>> >>)[0]

\* C7 witness: the solve of the positive-weight matrix from vertex 0 returned.
C7_Witness == pc = "returned" /\ weight = PositiveEdges /\ source = 0

\* C8: the matrix of the tests with negative edges and no negative cycle,
\* solved from vertex 0, does not raise and returns predecessors
\* [-1, 0, 1, 4, 1] and distances [0, -1, 2, -2, 1].
C8_NegativeEdgesResult ==
  (Finished /\ weight = NegativeEdges /\ source = 0) =>
    /\ pc = "returned"
    /\ pred = Rows(<< <<EVE, 0, 1, 4, 1>> >>)[0]
    /\ minDist = Rows(<< <<0, -1, 2, -2, 1>> >>)[0]

\* C8 witness: the solve of the negative-edge matrix from vertex 0 returned.
C8_Witness == pc = "returned" /\ weight = NegativeEdges /\ source = 0

\* C9: when the cycle-detection scan runs, exactly V-1 full relaxation
\* passes have been completed (i counts from 1, so i - 1 passes are done).
C9_ExactlyVMinusOnePasses ==
  pc \in {"detect", "returned", "raised"} => i - 1 = SIZE - 1

\* C10: every step either leaves distance[x] and predecessor[x] unchanged or
\* strictly decreases distance[x], for every vertex x; a step of the
\* cycle-detection scan changes neither array.
C10_NonIncreasing ==
  [][/\ \A x \in Vertices :
          \/ minDist'[x] = minDist[x] /\ pred'[x] = pred[x]
          \/ minDist'[x] < minDist[x]
     /\ pc = "detect" => (minDist' = minDist /\ pred' = pred)]_vars

\* C10 witness: the detection scan is running after relaxation steps that
\* lowered the distance of a vertex other than the source.
C10_Witness ==
  /\ pc = "detect"
  /\ \E x \in Vertices : x # source /\ minDist[x] < INFINITY /\ pred[x] # EVE

====
